---- MODULE Spec2Model ----
(***************************************************************************)
(* Model of the daily-focus planner: the constrained interval scheduler    *)
(* of src/src/tools/planning_tools.py (schedule_blocks and its nested      *)
(* free_segments), and the linkage store of src/src/store.py.              *)
(*                                                                         *)
(* Times are minutes since local midnight of the planning day; an interval *)
(* is a pair <<start, end>>.                                               *)
(***************************************************************************)
EXTENDS Integers, Sequences, FiniteSets, TLC

\* ---------------------------------------------------------------------------
\* Configuration (src/src/config.py) and literals of schedule_blocks
\* ---------------------------------------------------------------------------
WORKDAY_START == 480

WORKDAY_LUNCH == <<780, 840>>

WORKDAY_END == 1140

BUFFER_MIN == 10

MAX_BLOCKS == 5

MAX_DEEP_MORNING == 3

\* time(12, 0), the morning boundary of the deep-work quota
NOON == 720

\* is_deep = dur >= 45
DEEP_MINUTES == 45

\* triage_dur = 30
triage_dur == 30

\* dur = max(10, min(120, dur))
MINUTES_LO == 10

MINUTES_HI == 120

MINUTES_DEFAULT == 60

day_start == WORKDAY_START

lunch_start == WORKDAY_LUNCH[1]

lunch_end == WORKDAY_LUNCH[2]

day_end == WORKDAY_END

\* Python None
NULL == "None"

\* ---------------------------------------------------------------------------
\* Bounds of the model
\* ---------------------------------------------------------------------------
MaxTasks == 6

MaxBusy == 2

\* busy intervals given to free_segments when it is checked on its own
MaxSegBusy == 2

\* ---------------------------------------------------------------------------
\* Helpers
\* ---------------------------------------------------------------------------
Min(a, b) == IF a <= b THEN a ELSE b

Max(a, b) == IF a >= b THEN a ELSE b

\* all sequences over S of length at most n
SeqsUpTo(S, n) == UNION {[1..k -> S] : k \in 0..n}

\* Half-open overlap of two intervals (spec 4.1)
Overlap(a, b) == a[1] < b[2] /\ b[1] < a[2]

\* ---------------------------------------------------------------------------
\* free_segments (planning_tools.py 207-217)
\* ---------------------------------------------------------------------------
\* sorted(busy_list, key=lambda x: x[0]): stable insertion of b by start
RECURSIVE insert_by_start(_, _)
insert_by_start(sorted_list, b) ==
    IF sorted_list = <<>> THEN <<b>>
    ELSE IF b[1] < Head(sorted_list)[1] THEN <<b>> \o sorted_list
    ELSE <<Head(sorted_list)>> \o insert_by_start(Tail(sorted_list), b)

RECURSIVE bsorted(_)
bsorted(busy_list) ==
    IF busy_list = <<>> THEN <<>>
    ELSE insert_by_start(bsorted(SubSeq(busy_list, 1, Len(busy_list) - 1)),
                         busy_list[Len(busy_list)])

\* cur = max(cur, b[1]) in Python indexing: the sweep cursor after busy b
advance_to_end(cur, b) == b[2]

advance(cur, b) == Max(cur, b[2])

\* the for loop over bsorted from position i with sweep cursor cur; acc is
\* what has been yielded so far
RECURSIVE sweep(_, _, _, _, _)
sweep(bs, i, cur, end, acc) ==
    IF i > Len(bs)
    THEN IF cur < end THEN Append(acc, <<cur, end>>) ELSE acc
    ELSE LET b    == bs[i]
             acc2 == IF b[1] > cur THEN Append(acc, <<cur, Min(b[1], end)>>) ELSE acc
             cur2 == advance(cur, b)
         IN  IF cur2 >= end THEN acc2
             ELSE sweep(bs, i + 1, cur2, end, acc2)

free_segments(start, end, busy_list) == sweep(bsorted(busy_list), 1, start, end, <<>>)

\* ---------------------------------------------------------------------------
\* Lunch-aware slot decision for one free segment (planning_tools.py 242-259)
\* ---------------------------------------------------------------------------
NoSlot == <<>>

\* the length a segment must have for a task: (dur + BUFFER_MIN)
needed_no_buffer(dur) == dur

needed_half_buffer(dur) == dur + BUFFER_MIN \div 2

needed(dur) == dur + BUFFER_MIN

\* the rule for a segment clear of lunch applied to every segment
slot_in_segment_straddle(fs, fe, dur) ==
    IF fe - fs < needed(dur) THEN NoSlot ELSE <<fs, fs + dur>>

slot_in_segment(fs, fe, dur) ==
    LET segment_minutes == fe - fs
    IN  IF fs < lunch_end /\ fe > lunch_start
        THEN LET before_minutes == IF fs < lunch_start THEN lunch_start - fs ELSE 0
             IN  IF before_minutes >= needed(dur)
                 THEN <<fs, fs + dur>>
                 ELSE LET fs2 == Max(fs, lunch_end)
                          after_minutes == fe - fs2
                      IN  IF after_minutes < needed(dur)
                          THEN NoSlot
                          ELSE <<fs2, fs2 + dur>>
        ELSE IF segment_minutes < needed(dur)
             THEN NoSlot
             ELSE <<fs, fs + dur>>

\* for (fs, fe) in free_segments(...): first segment that yields a slot
first_slot_head(segs, dur) ==
    IF segs = <<>> THEN NoSlot
    ELSE slot_in_segment(Head(segs)[1], Head(segs)[2], dur)

RECURSIVE first_slot(_, _)
first_slot(segs, dur) ==
    IF segs = <<>> THEN NoSlot
    ELSE LET s == slot_in_segment(Head(segs)[1], Head(segs)[2], dur)
         IN  IF s # NoSlot THEN s ELSE first_slot(Tail(segs), dur)

\* triage loop (planning_tools.py 305-321): first segment of >= triage_dur
triage_slot_first(segs) ==
    IF segs = <<>> THEN NoSlot
    ELSE <<Head(segs)[1], Head(segs)[1] + triage_dur>>

RECURSIVE triage_slot(_)
triage_slot(segs) ==
    IF segs = <<>> THEN NoSlot
    ELSE IF Head(segs)[2] - Head(segs)[1] >= triage_dur
         THEN <<Head(segs)[1], Head(segs)[1] + triage_dur>>
         ELSE triage_slot(Tail(segs))

\* ---------------------------------------------------------------------------
\* Normalisation of the input list (planning_tools.py 175-191)
\* ---------------------------------------------------------------------------
\* str(...).strip() on the texts the model draws
strip(text) ==
    IF text \in {"", " "} THEN ""
    ELSE IF text = " draft " THEN "draft"
    ELSE text

clamp_none(dur) == dur

clamp(dur) == Max(MINUTES_LO, Min(MINUTES_HI, dur))

\* the values a "minutes" key can hold: an int, a str, None; or the key is
\* missing
PyInt(v) == [kind |-> "int", v |-> v]

PyStr(s) == [kind |-> "str", s |-> s]

PyNone == [kind |-> "none"]

Missing == [kind |-> "missing"]

\* m.get("minutes", 60)
get_minutes(m) == IF m.minutes = Missing THEN PyInt(MINUTES_DEFAULT) ELSE m.minutes

\* int(x): the value, or ValueError on a str that is no integer literal and
\* TypeError on None
int(x) ==
    IF x.kind = "int" THEN [raises |-> FALSE, v |-> x.v]
    ELSE IF x.kind = "str" /\ x.s = "45" THEN [raises |-> FALSE, v |-> 45]
    ELSE IF x.kind = "str" /\ x.s = "200" THEN [raises |-> FALSE, v |-> 200]
    ELSE [raises |-> TRUE, v |-> 0]

\* try: dur = int(...) except Exception: dur = 60; then the clamp (181-185)
minutes_of(m) ==
    LET r == int(get_minutes(m))
    IN  clamp(IF r.raises THEN MINUTES_DEFAULT ELSE r.v)

RECURSIVE normalize(_)
normalize(mits) ==
    IF mits = <<>> THEN <<>>
    ELSE LET m     == Head(mits)
             title == strip(m.text)
         IN  IF title = "" THEN normalize(Tail(mits))
             ELSE <<[text |-> title, minutes |-> minutes_of(m),
                     thread_id |-> m.thread_id]>> \o normalize(Tail(mits))

\* ---------------------------------------------------------------------------
\* Inputs the model draws
\* ---------------------------------------------------------------------------
RawMits ==
    { [text |-> " ",      minutes |-> PyInt(60), thread_id |-> NULL],
      [text |-> "inbox",  minutes |-> PyInt(5), thread_id |-> NULL],
      [text |-> "draft",  minutes |-> PyInt(45), thread_id |-> "t1"],
      [text |-> "review", minutes |-> PyInt(60), thread_id |-> NULL] }

NowValues == {420, 510, 540, 730, 800, 1080, 1140}

BusyPool == { <<600, 660>>, <<850, 1110>> }

\* get_busy lists the day's events with orderBy='startTime'
\* (calendar_provider.py 43): events of the pool in order of start
BusyLists ==
    {bl \in SeqsUpTo(BusyPool, MaxBusy) :
        \A i \in 1..(Len(bl) - 1) : bl[i][1] < bl[i + 1][1]}

\* ---------------------------------------------------------------------------
\* Linkage store (src/src/store.py)
\* ---------------------------------------------------------------------------
ThreadIds == {"t1", "t2"}

\* values a caller passes for notion_block_id and for calendar_event_id
NotionIds == {NULL, "", "n1"}

EventIds == {NULL, "", "c1"}

MaxCalls == 3

\* fetchone() found no row
NoRow == [none |-> TRUE]

\* Python truthiness of an Optional[str]
truthy(v) == v # NULL /\ v # ""

\* Python "a or b"
py_or(a, b) == IF truthy(a) THEN a ELSE b

\* the row upsert_mapping leaves for thread_id, given the row it read (64-75)
upsert_row(row, notion_block_id, calendar_event_id, ts) ==
    IF row # NoRow
    THEN [notion_block_id   |-> py_or(notion_block_id, row.notion_block_id),
          calendar_event_id |-> py_or(calendar_event_id, row.calendar_event_id),
          created_at        |-> ts]
    ELSE [notion_block_id   |-> notion_block_id,
          calendar_event_id |-> calendar_event_id,
          created_at        |-> ts]

\* ---------------------------------------------------------------------------
\* State
\* ---------------------------------------------------------------------------
VARIABLES
    pc,                 \* position in schedule_blocks: idle, loop, triage, done,
                        \* or raise_<call> once an exception has left the function
    now,                \* datetime.now(TZ) at the call
    cal_busy,           \* what CAL.get_busy(today) returns
    normalized,         \* the normalised task list
    idx,                \* number of entries of normalized the for loop has taken
    cursor,
    created,            \* the records appended to created
    created_busy,
    blocks_left,
    deep_morning_left,
    events,             \* events CAL.create_event has created, in order
    cal_enabled,        \* CAL.enabled and CAL.service is not None
    seg_in,             \* arguments of a free_segments call
    seg_out,            \* what that call yields
    seg_done,           \* the call has been made
    slot_in,            \* segments and duration given to the slot loop
    slot_out,           \* the slot the loop takes
    slot_done,          \* the loop has run
    mappings,           \* table mappings: thread_id -> row or NoRow
    clock,              \* datetime.utcnow()
    calls,              \* upsert_mapping calls made, in order
    norm_in,            \* a mits argument of schedule_blocks
    norm_out,           \* the normalized list built from it
    norm_done,          \* the normalisation has run
    prio_in,            \* candidate tasks and model response of prioritize_mits
    prio_out,           \* what prioritize_mits returns
    prio_done,          \* prioritize_mits has run
    th_pc,              \* each thread's position in upsert_mapping
    th_call,            \* each thread's arguments
    th_ts,              \* each thread's ts (line 56)
    th_row,             \* each thread's fetchone() result
    lock,               \* holder of TinyStore._lock, 0 when free
    lock_order,         \* threads in the order they held the lock
    g_status,           \* each workflow node: idle, ready, running, finished
    g_runs,             \* how many times each node has executed
    g_log               \* start and end of node executions, in order

schedVars == <<pc, now, cal_busy, normalized, idx, cursor, created, created_busy,
               blocks_left, deep_morning_left, events, cal_enabled>>

segVars == <<seg_in, seg_out, seg_done>>

slotVars == <<slot_in, slot_out, slot_done>>

storeVars == <<mappings, clock, calls>>

normVars == <<norm_in, norm_out, norm_done>>

prioVars == <<prio_in, prio_out, prio_done>>

concVars == <<th_pc, th_call, th_ts, th_row, lock, lock_order>>

graphVars == <<g_status, g_runs, g_log>>

toolVars == <<normVars, prioVars, concVars, graphVars>>

vars == <<schedVars, segVars, slotVars, storeVars, toolVars>>

\* busy = CAL.get_busy(today) + [(lunch_start, lunch_end)]
busy_without_lunch(cal) == cal

busy_of(cal) == cal \o << <<lunch_start, lunch_end>> >>

busy == busy_of(cal_busy)

\* cursor = max(now, day_start)
initial_cursor_now(n) == n

initial_cursor(n) == Max(n, day_start)

\* quota guard (233-235)
guard_cursor_none(cur, is_deep, deep_left) == cur

guard_cursor_always(cur, is_deep, deep_left) ==
    IF is_deep /\ cur < NOON THEN NOON ELSE cur

guard_cursor_any_time(cur, is_deep, deep_left) ==
    IF is_deep /\ deep_left <= 0 THEN NOON ELSE cur

guard_cursor(cur, is_deep, deep_left) ==
    IF is_deep /\ cur < NOON /\ deep_left <= 0 THEN NOON ELSE cur

\* "continue" on a task that was not placed (297-299): cursor keeps what the
\* quota guard assigned to it
cursor_after_drop_restored(before, guarded) == before

cursor_after_drop(before, guarded) == guarded

\* stop guard (227-228)
stop_guard_never(left) == FALSE

stop_guard(left) == left <= 0

\* the locals of schedule_blocks before the call
InitLocals ==
    /\ pc = "idle"
    /\ now = 0
    /\ cal_busy = <<>>
    /\ normalized = <<>>
    /\ idx = 0
    /\ cursor = 0
    /\ created = <<>>
    /\ created_busy = <<>>
    /\ blocks_left = MAX_BLOCKS
    /\ deep_morning_left = MAX_DEEP_MORNING
    /\ events = <<>>

\* CAL = CalendarProvider() with credentials and a service
InitSched == InitLocals /\ cal_enabled = TRUE

InitSeg ==
    /\ seg_in = [start |-> 0, end |-> 0, busy_list |-> <<>>]
    /\ seg_out = <<>>
    /\ seg_done = FALSE

InitSlot ==
    /\ slot_in = [segs |-> <<>>, dur |-> 0]
    /\ slot_out = NoSlot
    /\ slot_done = FALSE

\* TinyStore.__init__ / _init: empty tables
InitStore ==
    /\ mappings = [t \in ThreadIds |-> NoRow]
    /\ clock = 0
    /\ calls = <<>>

InitNorm ==
    /\ norm_in = <<>>
    /\ norm_out = <<>>
    /\ norm_done = FALSE

InitPrio ==
    /\ prio_in = [tasks |-> <<>>, resp |-> [raises |-> TRUE]]
    /\ prio_out = [raises |-> FALSE, list |-> <<>>]
    /\ prio_done = FALSE

\* the workflow nodes (workflow_graph.py 272-279)
Nodes == {"list_tasks", "fetch_emails", "filter_emails", "select_mits",
          "add_todos", "prioritize", "schedule", "summary"}

\* the compiled graph before invoke
InitGraph ==
    /\ g_status = [n \in Nodes |-> "idle"]
    /\ g_runs = [n \in Nodes |-> 0]
    /\ g_log = <<>>

\* no thread is inside upsert_mapping
InitConc ==
    /\ th_pc = <<>>
    /\ th_call = <<>>
    /\ th_ts = <<>>
    /\ th_row = <<>>
    /\ lock = 0
    /\ lock_order = <<>>

Init == InitSched /\ InitSeg /\ InitSlot /\ InitStore /\ InitNorm /\ InitPrio /\ InitConc /\ InitGraph

\* the id create_event returned, as str(evt_id) hands it to the store (281)
EventName == <<"e1", "e2", "e3", "e4", "e5", "e6">>

str_id(evt_id) == EventName[evt_id]

\* the calendar after create_event's events().insert(...).execute()
\* (calendar_provider.py 58-64), or after the mock's print (56)
insert_twice(evs, title, slot) ==
    evs \o << [title |-> title, start |-> slot[1], end |-> slot[2]],
              [title |-> title, start |-> slot[1], end |-> slot[2]] >>

insert(evs, title, slot) ==
    Append(evs, [title |-> title, start |-> slot[1], end |-> slot[2]])

\* "except Exception: pass" around the linkage write (282-284): the position
\* the run is at after the store raised
except_reraise(p) == "raise_upsert_mapping"

except_pass(p) == p

\* schedule_blocks up to the placement loop (173-224).  now is the wall
\* clock at the call; a live get_busy returns the calendar's list or raises
\* (get_ok), a provider without credentials or service returns [] (39-40);
\* the early return at 193-194 reads neither.
Call(lists, nows, busy_lists, get_outcomes) ==
    /\ pc = "idle"
    /\ \E mits \in lists, n \in nows, cb \in busy_lists, get_ok \in get_outcomes :
          LET norm == normalize(mits)
          IN  /\ normalized' = norm
              /\ now' = n
              /\ IF norm = <<>>
                 THEN pc' = "done" /\ cal_busy' = cb /\ UNCHANGED cursor
                 ELSE IF ~cal_enabled
                 THEN pc' = "loop" /\ cal_busy' = <<>> /\ cursor' = initial_cursor(n)
                 ELSE IF ~get_ok
                 THEN pc' = "raise_get_busy" /\ cal_busy' = <<>> /\ UNCHANGED cursor
                 ELSE pc' = "loop" /\ cal_busy' = cb /\ cursor' = initial_cursor(n)
    /\ UNCHANGED <<idx, created, created_busy, blocks_left, deep_morning_left,
                   events, cal_enabled>>
    /\ UNCHANGED <<segVars, slotVars, storeVars, toolVars>>

\* one iteration of "for mit in normalized" that passes the stop guard
\* (229-299).  A live create_event returns an id or raises (create_ok), the
\* mock one always returns (55-57); upsert_mapping writes or raises (link_ok).
Place(create_outcomes, link_outcomes) ==
    /\ pc = "loop"
    /\ idx < Len(normalized)
    /\ ~stop_guard(blocks_left)
    /\ LET mit     == normalized[idx + 1]
           dur     == mit.minutes
           is_deep == dur >= DEEP_MINUTES
           cur     == guard_cursor(cursor, is_deep, deep_morning_left)
           slot    == first_slot(free_segments(cur, day_end, busy \o created_busy), dur)
           evt_id  == Len(events) + 1
       IN  IF slot = NoSlot
           THEN /\ idx' = idx + 1
                /\ cursor' = cursor_after_drop(cursor, cur)
                /\ UNCHANGED <<pc, created, created_busy, blocks_left,
                               deep_morning_left, events, storeVars>>
           ELSE \E create_ok \in create_outcomes, link_ok \in link_outcomes :
                IF cal_enabled /\ ~create_ok
                THEN /\ pc' = "raise_create_event"
                     /\ UNCHANGED <<idx, cursor, created, created_busy, blocks_left,
                                    deep_morning_left, events, storeVars>>
                ELSE /\ idx' = idx + 1
                     /\ events' = insert(events, mit.text, slot)
                     /\ created' = Append(created,
                                     [calendar_event_id |-> evt_id,
                                      title |-> mit.text,
                                      start |-> slot[1], end |-> slot[2]])
                     /\ IF truthy(mit.thread_id)
                        THEN /\ clock' = clock + 1
                             /\ calls' = Append(calls,
                                           [thread_id |-> mit.thread_id,
                                            notion_block_id |-> NULL,
                                            calendar_event_id |-> str_id(evt_id)])
                             /\ IF link_ok
                                THEN /\ mappings' = [mappings EXCEPT ![mit.thread_id] =
                                                       upsert_row(mappings[mit.thread_id], NULL,
                                                                  str_id(evt_id), clock + 1)]
                                     /\ pc' = pc
                                ELSE /\ mappings' = mappings
                                     /\ pc' = except_pass(pc)
                        ELSE UNCHANGED <<pc, storeVars>>
                     /\ created_busy' = created_busy \o
                                          << <<slot[1], slot[2]>>,
                                             <<slot[2], slot[2] + BUFFER_MIN>> >>
                     /\ blocks_left' = blocks_left - 1
                     /\ deep_morning_left' =
                          IF is_deep /\ slot[1] < NOON
                          THEN deep_morning_left - 1 ELSE deep_morning_left
                     /\ cursor' = slot[2] + BUFFER_MIN
    /\ UNCHANGED <<now, cal_busy, normalized, cal_enabled>>
    /\ UNCHANGED <<segVars, slotVars, toolVars>>

\* the loop ends: list exhausted, or break on blocks_left <= 0 (226-228)
LoopExit ==
    /\ pc = "loop"
    /\ idx >= Len(normalized) \/ stop_guard(blocks_left)
    /\ pc' = "triage"
    /\ UNCHANGED <<now, cal_busy, normalized, idx, cursor, created, created_busy,
                   blocks_left, deep_morning_left, events, cal_enabled>>
    /\ UNCHANGED <<segVars, slotVars, storeVars, toolVars>>

\* triage fallback and return (301-323)
Triage(create_outcomes) ==
    /\ pc = "triage"
    /\ LET slot == triage_slot(free_segments(cursor, day_end, busy \o created_busy))
       IN  IF created = <<>> /\ slot # NoSlot
           THEN \E create_ok \in create_outcomes :
                IF cal_enabled /\ ~create_ok
                THEN pc' = "raise_create_event" /\ UNCHANGED <<created, events>>
                ELSE /\ pc' = "done"
                     /\ events' = insert(events, "Triage (30m)", slot)
                     /\ created' = Append(created,
                                     [calendar_event_id |-> Len(events) + 1,
                                      title |-> "Triage (30m)",
                                      start |-> slot[1], end |-> slot[2]])
           ELSE pc' = "done" /\ UNCHANGED <<created, events>>
    /\ UNCHANGED <<now, cal_busy, normalized, idx, cursor, created_busy,
                   blocks_left, deep_morning_left, cal_enabled>>
    /\ UNCHANGED <<segVars, slotVars, storeVars, toolVars>>

\* the run in which every external call returns
Invoke == Call(SeqsUpTo(RawMits, MaxTasks), NowValues, BusyLists, {TRUE})

PlaceStep == Place({TRUE}, {TRUE})

TriageFallback == Triage({TRUE})

Next == Invoke \/ PlaceStep \/ LoopExit \/ TriageFallback

Spec == Init /\ [][Next]_vars

\* ---------------------------------------------------------------------------
\* free_segments as a function of its arguments
\* ---------------------------------------------------------------------------
GridMax == 5

GridIntervals == {<<a, b>> : a \in 0..GridMax, b \in 0..GridMax}

\* a window with start < end and busy intervals with end > start
SegInputs ==
    { [start |-> w[1], end |-> w[2], busy_list |-> bl] :
        w \in {x \in GridIntervals : x[1] < x[2]},
        bl \in SeqsUpTo({x \in GridIntervals : x[1] < x[2]}, MaxSegBusy) }

InitSegDraw ==
    /\ seg_in \in SegInputs
    /\ seg_out = <<>>
    /\ seg_done = FALSE

FreeSegmentsCall ==
    /\ ~seg_done
    /\ seg_out' = free_segments(seg_in.start, seg_in.end, seg_in.busy_list)
    /\ seg_done' = TRUE
    /\ UNCHANGED <<seg_in, schedVars, slotVars, storeVars, toolVars>>

NextSeg == FreeSegmentsCall

InitSegSpec == InitSched /\ InitSegDraw /\ InitSlot /\ InitStore /\ InitNorm /\ InitPrio /\ InitConc /\ InitGraph

SpecSeg == InitSegSpec /\ [][NextSeg]_vars

\* ---------------------------------------------------------------------------
\* The slot loop (240-259) as a function of the segments and the duration
\* ---------------------------------------------------------------------------
MaxSegs == 2

SlotTimes == {600, 730, 780, 800, 840, 900, 1140}

SlotDurations == {10, 45, 90, 120}

SlotInputs ==
    { [segs |-> sg, dur |-> d] :
        sg \in SeqsUpTo({<<a, b>> \in SlotTimes \X SlotTimes : a < b}, MaxSegs),
        d \in SlotDurations }

InitSlotDraw ==
    /\ slot_in \in SlotInputs
    /\ slot_out = NoSlot
    /\ slot_done = FALSE

SlotLoop ==
    /\ ~slot_done
    /\ slot_out' = first_slot(slot_in.segs, slot_in.dur)
    /\ slot_done' = TRUE
    /\ UNCHANGED <<slot_in, schedVars, segVars, storeVars, toolVars>>

NextSlot == SlotLoop

InitSlotSpec == InitSched /\ InitSeg /\ InitSlotDraw /\ InitStore /\ InitNorm /\ InitPrio /\ InitConc /\ InitGraph

SpecSlot == InitSlotSpec /\ [][NextSlot]_vars

\* ---------------------------------------------------------------------------
\* The linkage store
\* ---------------------------------------------------------------------------
\* TinyStore.upsert_mapping (50-76); the read and the write are one step
\* under self._lock
UpsertMapping ==
    /\ Len(calls) < MaxCalls
    /\ \E thread_id \in ThreadIds, notion_block_id \in NotionIds,
          calendar_event_id \in EventIds :
          LET ts == clock + 1
          IN  /\ clock' = ts
              /\ mappings' = [mappings EXCEPT ![thread_id] =
                                upsert_row(mappings[thread_id], notion_block_id,
                                           calendar_event_id, ts)]
              /\ calls' = Append(calls, [thread_id |-> thread_id,
                                         notion_block_id |-> notion_block_id,
                                         calendar_event_id |-> calendar_event_id])
    /\ UNCHANGED <<schedVars, segVars, slotVars, toolVars>>

\* TinyStore.get_mapping (82-92)
get_mapping(thread_id) ==
    IF mappings[thread_id] = NoRow
    THEN [notion_block_id |-> NULL, calendar_event_id |-> NULL]
    ELSE [notion_block_id   |-> mappings[thread_id].notion_block_id,
          calendar_event_id |-> mappings[thread_id].calendar_event_id]

NextStore == UpsertMapping

SpecStore == Init /\ [][NextStore]_vars

\* ---------------------------------------------------------------------------
\* schedule_blocks with external calls that may fail
\* ---------------------------------------------------------------------------
MaxRunTasks == 3

RunMits ==
    { [text |-> "draft",  minutes |-> PyInt(45), thread_id |-> "t1"],
      [text |-> "review", minutes |-> PyInt(60), thread_id |-> NULL],
      [text |-> "reply",  minutes |-> PyInt(30), thread_id |-> "t2"] }

RunNow == {420, 730}

\* get_busy appends every event that has both dateTimes, whatever their
\* order (calendar_provider.py 45-51): the pool holds a zero-length event,
\* and an event 35 minutes after one of the call times
RunBusyPool == BusyPool \cup { <<700, 700>>, <<765, 780>> }

RunBusyLists ==
    {bl \in SeqsUpTo(RunBusyPool, MaxBusy) :
        \A i \in 1..(Len(bl) - 1) : bl[i][1] < bl[i + 1][1]}

\* CAL is built at import: with credentials and a service, or in mock mode
\* (calendar_provider.py 17-21)
InitRun ==
    /\ InitLocals
    /\ cal_enabled \in BOOLEAN
    /\ InitSeg /\ InitSlot /\ InitStore /\ InitNorm /\ InitPrio /\ InitConc /\ InitGraph

InvokeRun == Call(SeqsUpTo(RunMits, MaxRunTasks), RunNow, RunBusyLists, BOOLEAN)

PlaceStepRun == Place(BOOLEAN, BOOLEAN)

TriageFallbackRun == Triage(BOOLEAN)

NextRun == InvokeRun \/ PlaceStepRun \/ LoopExit \/ TriageFallbackRun

SpecRun == InitRun /\ [][NextRun]_vars

\* ---------------------------------------------------------------------------
\* The normalisation of schedule_blocks on its own (175-194)
\* ---------------------------------------------------------------------------
MaxNormLen == 2

NormTexts == {"", " ", " draft ", "review"}

NormMinutes == {PyInt(5), PyInt(60), PyInt(300), PyStr("200"), PyStr("abc"),
                PyNone, Missing}

NormMits ==
    {[text |-> t, minutes |-> m, thread_id |-> IF t = "review" THEN "t1" ELSE NULL] :
        t \in NormTexts, m \in NormMinutes}

InitNormDraw ==
    /\ norm_in \in SeqsUpTo(NormMits, MaxNormLen)
    /\ norm_out = <<>>
    /\ norm_done = FALSE

Normalize ==
    /\ ~norm_done
    /\ norm_out' = normalize(norm_in)
    /\ norm_done' = TRUE
    /\ UNCHANGED <<norm_in, schedVars, segVars, slotVars, storeVars, prioVars, concVars, graphVars>>

NextNorm == Normalize

InitNormSpec == InitSched /\ InitSeg /\ InitSlot /\ InitStore /\ InitNormDraw /\ InitPrio /\ InitConc /\ InitGraph

SpecNorm == InitNormSpec /\ [][NextNorm]_vars

\* ---------------------------------------------------------------------------
\* prioritize_mits (62-149)
\* ---------------------------------------------------------------------------
PRIO_CAP == 5

FALLBACK_N == 3

\* task_texts (87-92): the stripped, non-blank texts in order
RECURSIVE task_texts(_)
task_texts(tasks) ==
    IF tasks = <<>> THEN <<>>
    ELSE LET txt == strip(Head(tasks).text)
         IN  IF txt = "" THEN task_texts(Tail(tasks))
             ELSE <<txt>> \o task_texts(Tail(tasks))

\* id_by_text[txt]["thread_id"] (94-97): the last task with that text wins
RECURSIVE id_by_text(_, _)
id_by_text(tasks, txt) ==
    IF tasks = <<>> THEN NULL
    ELSE IF strip(tasks[Len(tasks)].text) = txt THEN tasks[Len(tasks)].thread_id
    ELSE id_by_text(SubSeq(tasks, 1, Len(tasks) - 1), txt)

\* _extract_json_array (46-57).  A response is described by the positions
\* s.find("[") and s.rfind("]"), by whether json.loads accepts the text
\* between them, and by the array it then yields.
extract_json_array(resp) ==
    IF resp.open # -1 /\ resp.close # -1 /\ resp.close > resp.open
    THEN IF resp.json_ok THEN resp.array ELSE <<>>
    ELSE <<>>

\* the body of the try (119-140): the cleaned list, or an exception raised by
\* int()
RECURSIVE clean_items(_, _)
clean_items(arr, tasks) ==
    IF arr = <<>> THEN [raises |-> FALSE, list |-> <<>>]
    ELSE LET item == Head(arr)
             rest == clean_items(Tail(arr), tasks)
         IN  IF item.kind # "dict" THEN rest
             ELSE IF strip(item.text) = "" THEN rest
             ELSE IF int(get_minutes(item)).raises THEN [raises |-> TRUE, list |-> <<>>]
             ELSE IF rest.raises THEN rest
             ELSE [raises |-> FALSE,
                   list |-> <<[text |-> strip(item.text),
                               minutes |-> clamp(int(get_minutes(item)).v),
                               thread_id |->
                                   IF truthy(id_by_text(tasks, strip(item.text)))
                                   THEN id_by_text(tasks, strip(item.text))
                                   ELSE NULL]>> \o rest.list]

\* the fallback of the except branch (146-149)
fallback(texts) ==
    [i \in 1..Min(FALLBACK_N, Len(texts)) |->
        [text |-> texts[i], minutes |-> MINUTES_DEFAULT, thread_id |-> NULL]]

\* prioritize_mits: what the caller gets
prioritize_mits(tasks, resp) ==
    IF task_texts(tasks) = <<>> THEN [raises |-> FALSE, list |-> <<>>]
    ELSE IF resp.raises THEN [raises |-> TRUE, list |-> <<>>]
    ELSE LET cleaned == clean_items(extract_json_array(resp), tasks)
         IN  IF cleaned.raises
             THEN [raises |-> FALSE, list |-> fallback(task_texts(tasks))]
             ELSE [raises |-> FALSE,
                   list |-> IF Len(cleaned.list) > PRIO_CAP
                            THEN SubSeq(cleaned.list, 1, PRIO_CAP)
                            ELSE cleaned.list]

MaxPrioTasks == 4

MaxItems == 2

PrioTasks ==
    { [text |-> " ", thread_id |-> NULL],
      [text |-> "draft", thread_id |-> "t1"],
      [text |-> "review", thread_id |-> NULL] }

\* what json.loads can find in the array: objects and other values
PrioItems ==
    { [kind |-> "other"],
      [kind |-> "dict", text |-> "draft", minutes |-> PyInt(300)],
      [kind |-> "dict", text |-> "review", minutes |-> PyStr("abc")],
      [kind |-> "dict", text |-> " ", minutes |-> PyNone],
      [kind |-> "dict", text |-> "plan", minutes |-> Missing] }

\* an array longer than the cap
SixItems == [i \in 1..6 |-> [kind |-> "dict", text |-> "plan", minutes |-> Missing]]

\* model.invoke raises, or returns a text: without brackets, with the last
\* "]" before the first "[", or with a bracketed part that json.loads takes
\* or refuses
Responses ==
    {[raises |-> TRUE]}
    \cup {[raises |-> FALSE, open |-> o, close |-> c, json_ok |-> FALSE, array |-> <<>>] :
             o \in {-1, 4}, c \in {-1, 2, 9}}
    \cup {[raises |-> FALSE, open |-> 0, close |-> 9, json_ok |-> TRUE, array |-> a] :
             a \in SeqsUpTo(PrioItems, MaxItems) \cup {SixItems}}

InitPrioDraw ==
    /\ prio_in \in {[tasks |-> t, resp |-> r] :
                       t \in SeqsUpTo(PrioTasks, MaxPrioTasks), r \in Responses}
    /\ prio_out = [raises |-> FALSE, list |-> <<>>]
    /\ prio_done = FALSE

Prioritize ==
    /\ ~prio_done
    /\ prio_out' = prioritize_mits(prio_in.tasks, prio_in.resp)
    /\ prio_done' = TRUE
    /\ UNCHANGED <<prio_in, schedVars, segVars, slotVars, storeVars, normVars, concVars, graphVars>>

NextPrio == Prioritize

InitPrioSpec == InitSched /\ InitSeg /\ InitSlot /\ InitStore /\ InitNorm /\ InitPrioDraw /\ InitConc /\ InitGraph

SpecPrio == InitPrioSpec /\ [][NextPrio]_vars

\* ---------------------------------------------------------------------------
\* Threads calling upsert_mapping on the shared TinyStore (store.py 50-76)
\* ---------------------------------------------------------------------------
MaxWorkers == 2

Workers == 1..MaxWorkers

\* the key the threads write
SHARED_ID == "t1"

\* the table the threads find: no row for the key, or an earlier row
InitConcDraw ==
    /\ th_pc = [w \in Workers |-> "ts"]
    /\ th_call \in [Workers -> [thread_id : {SHARED_ID},
                                notion_block_id : NotionIds,
                                calendar_event_id : EventIds]]
    /\ th_ts = [w \in Workers |-> 0]
    /\ th_row = [w \in Workers |-> NoRow]
    /\ lock = 0
    /\ lock_order = <<>>
    /\ mappings \in {[t \in ThreadIds |-> NoRow],
                     [t \in ThreadIds |->
                        IF t = SHARED_ID
                        THEN [notion_block_id |-> "n0", calendar_event_id |-> "c0",
                              created_at |-> 0]
                        ELSE NoRow]}
    /\ clock = 0
    /\ calls = <<>>

\* ts = datetime.utcnow().isoformat() (56), before the lock is taken
TakeTs(w) ==
    /\ th_pc[w] = "ts"
    /\ clock' = clock + 1
    /\ th_ts' = [th_ts EXCEPT ![w] = clock + 1]
    /\ th_pc' = [th_pc EXCEPT ![w] = "lock"]
    /\ UNCHANGED <<mappings, calls, th_call, th_row, lock, lock_order>>
    /\ UNCHANGED <<schedVars, segVars, slotVars, normVars, prioVars, graphVars>>

\* with self._lock: (57) entered
acquire(l) == l = 0

Acquire(w) ==
    /\ th_pc[w] = "lock"
    /\ acquire(lock)
    /\ lock' = w
    /\ lock_order' = Append(lock_order, w)
    /\ th_pc' = [th_pc EXCEPT ![w] = "select"]
    /\ UNCHANGED <<storeVars, th_call, th_ts, th_row>>
    /\ UNCHANGED <<schedVars, segVars, slotVars, normVars, prioVars, graphVars>>

\* SELECT ... ; row = cur.fetchone() (58-63)
Select(w) ==
    /\ th_pc[w] = "select"
    /\ th_row' = [th_row EXCEPT ![w] = mappings[th_call[w].thread_id]]
    /\ th_pc' = [th_pc EXCEPT ![w] = "write"]
    /\ UNCHANGED <<storeVars, th_call, th_ts, lock, lock_order>>
    /\ UNCHANGED <<schedVars, segVars, slotVars, normVars, prioVars, graphVars>>

\* UPDATE or INSERT, commit, and the lock released on leaving the with block
\* (64-76); the connection is shared, so the write is visible at once
Write(w) ==
    /\ th_pc[w] = "write"
    /\ mappings' = [mappings EXCEPT ![th_call[w].thread_id] =
                      upsert_row(th_row[w], th_call[w].notion_block_id,
                                 th_call[w].calendar_event_id, th_ts[w])]
    /\ calls' = Append(calls, th_call[w])
    /\ lock' = IF lock = w THEN 0 ELSE lock
    /\ th_pc' = [th_pc EXCEPT ![w] = "done"]
    /\ UNCHANGED <<clock, th_call, th_ts, th_row, lock_order>>
    /\ UNCHANGED <<schedVars, segVars, slotVars, normVars, prioVars, graphVars>>

NextConc == \E w \in Workers : TakeTs(w) \/ Acquire(w) \/ Select(w) \/ Write(w)

InitConcSpec ==
    InitSched /\ InitSeg /\ InitSlot /\ InitNorm /\ InitPrio /\ InitConcDraw /\ InitGraph

SpecConc == InitConcSpec /\ [][NextConc]_vars

\* ---------------------------------------------------------------------------
\* The workflow graph (workflow_graph.py 266-301) run by graph.invoke({})
\* ---------------------------------------------------------------------------
START == "__start__"

END == "__end__"

\* the add_edge calls (283-298); each names one start node
Edges ==
    { <<START, "list_tasks">>,
      <<START, "fetch_emails">>,
      <<"fetch_emails", "filter_emails">>,
      <<"list_tasks", "select_mits">>,
      <<"filter_emails", "select_mits">>,
      <<"select_mits", "add_todos">>,
      <<"add_todos", "prioritize">>,
      <<"prioritize", "schedule">>,
      <<"schedule", "summary">>,
      <<"summary", END>> }

\* the nodes an edge with a single start node triggers for the next
\* superstep: those with an edge from a node that ran in this one
triggered(ran) == {m \in Nodes : \E n \in ran : <<n, m>> \in Edges}

\* graph.invoke: the first superstep holds the nodes START leads to
GraphInvoke ==
    /\ g_log = <<>>
    /\ \A n \in Nodes : g_status[n] = "idle"
    /\ g_status' = [n \in Nodes |-> IF n \in triggered({START}) THEN "ready" ELSE "idle"]
    /\ g_log' = <<[ev |-> "invoke", node |-> START]>>
    /\ UNCHANGED g_runs
    /\ UNCHANGED <<schedVars, segVars, slotVars, storeVars, normVars, prioVars, concVars>>

\* the nodes of a superstep run concurrently
NodeStart(n) ==
    /\ g_status[n] = "ready"
    /\ g_status' = [g_status EXCEPT ![n] = "running"]
    /\ g_runs' = [g_runs EXCEPT ![n] = @ + 1]
    /\ g_log' = Append(g_log, [ev |-> "start", node |-> n])
    /\ UNCHANGED <<schedVars, segVars, slotVars, storeVars, normVars, prioVars, concVars>>

NodeEnd(n) ==
    /\ g_status[n] = "running"
    /\ g_status' = [g_status EXCEPT ![n] = "finished"]
    /\ g_log' = Append(g_log, [ev |-> "end", node |-> n])
    /\ UNCHANGED g_runs
    /\ UNCHANGED <<schedVars, segVars, slotVars, storeVars, normVars, prioVars, concVars>>

\* all nodes of the superstep have returned: their writes are applied and the
\* nodes they trigger form the next superstep; with none, invoke returns
Superstep ==
    /\ \E n \in Nodes : g_status[n] = "finished"
    /\ \A n \in Nodes : g_status[n] \in {"idle", "finished"}
    /\ g_status' = [n \in Nodes |->
                      IF n \in triggered({m \in Nodes : g_status[m] = "finished"})
                      THEN "ready" ELSE "idle"]
    /\ g_log' = Append(g_log, [ev |-> "step", node |-> END])
    /\ UNCHANGED g_runs
    /\ UNCHANGED <<schedVars, segVars, slotVars, storeVars, normVars, prioVars, concVars>>

NextGraph == GraphInvoke \/ Superstep \/ \E n \in Nodes : NodeStart(n) \/ NodeEnd(n)

SpecGraph == Init /\ [][NextGraph]_vars

\* ---------------------------------------------------------------------------
\* Properties of the scheduler
\* ---------------------------------------------------------------------------
TRIAGE_TITLE == "Triage (30m)"

Interval(r) == <<r.start, r.end>>

WithBuffer(r) == <<r.start, r.end + BUFFER_MIN>>

TaskBlocks == {i \in 1..Len(created) : created[i].title # TRIAGE_TITLE}

TriageBlocks == {i \in 1..Len(created) : created[i].title = TRIAGE_TITLE}

WellFormedBusy == \A k \in 1..Len(cal_busy) : cal_busy[k][2] > cal_busy[k][1]

\* C1: with every busy interval well formed, a placed task block together
\* with its trailing buffer overlaps no other block of the run and no busy
\* interval returned by get_busy.
C1_NoOverlap ==
    WellFormedBusy =>
        \A i \in TaskBlocks :
            /\ \A j \in (1..Len(created)) \ {i} :
                  ~Overlap(WithBuffer(created[i]), Interval(created[j]))
            /\ \A k \in 1..Len(cal_busy) :
                  ~Overlap(WithBuffer(created[i]), cal_busy[k])

\* a block whose buffer ends exactly where a calendar event starts, after an
\* earlier block of the same run
C1_Witness ==
    /\ pc = "done"
    /\ \E i \in TaskBlocks, k \in 1..Len(cal_busy) :
          /\ i > 1
          /\ created[i].end + BUFFER_MIN = cal_busy[k][1]

\* C2: no block of the returned schedule, task or triage, intersects the
\* lunch interval.
C2_LunchExclusion ==
    \A i \in 1..Len(created) :
        ~Overlap(Interval(created[i]), <<lunch_start, lunch_end>>)

\* a run called before the end of lunch whose block starts right at its end
C2_Witness ==
    /\ pc = "done"
    /\ now < lunch_end
    /\ \E i \in 1..Len(created) : created[i].start = lunch_end

\* C3: every block starts at or after max(now, workdayStart) and ends at or
\* before workdayEnd.
C3_WindowContainment ==
    \A i \in 1..Len(created) :
        /\ created[i].start >= Max(now, WORKDAY_START)
        /\ created[i].end <= WORKDAY_END

\* a run called before the workday starts that placed a block at its start
C3_Witness ==
    /\ pc = "done"
    /\ now < WORKDAY_START
    /\ \E i \in 1..Len(created) : created[i].start = WORKDAY_START

SixSixties ==
    [i \in 1..6 |-> [text |-> "review", minutes |-> 60, thread_id |-> NULL]]

C4_Bound ==
    /\ Len(created) <= MAX_BLOCKS
    /\ Len(events) <= MAX_BLOCKS
    /\ (pc = "done" /\ normalized = SixSixties /\ now = 510 /\ cal_busy = <<>>)
          => Len(created) = MAX_BLOCKS /\ Len(events) = MAX_BLOCKS

\* C4: at most MAX_BLOCKS blocks are ever created; once MAX_BLOCKS have been
\* created no further create_event call is made and the run still returns;
\* six 60-minute tasks at 08:30 on a free day give exactly five blocks.
C4_BlockQuota ==
    /\ []C4_Bound
    /\ [][Len(events) >= MAX_BLOCKS => events' = events /\ created' = created]_vars

\* the run of six 60-minute tasks has returned with the sixth dropped
C4_Witness ==
    /\ pc = "done"
    /\ normalized = SixSixties
    /\ now = 510
    /\ cal_busy = <<>>
    /\ Len(created) = MAX_BLOCKS
    /\ idx = MAX_BLOCKS

IsDeepBlock(r) == r.end - r.start >= DEEP_MINUTES

DeepMorning == {i \in 1..Len(created) : IsDeepBlock(created[i]) /\ created[i].start < NOON}

\* C5: at most MAX_DEEP_MORNING placed blocks of 45 minutes or more start
\* before 12:00, and a deep-work task taken when the morning quota is
\* exhausted is placed at or after 12:00 or not placed.
C5_DeepMorningQuota ==
    /\ [](Cardinality(DeepMorning) <= MAX_DEEP_MORNING)
    /\ [][(/\ pc = "loop"
           /\ idx' = idx + 1
           /\ normalized[idx + 1].minutes >= DEEP_MINUTES
           /\ Cardinality(DeepMorning) >= MAX_DEEP_MORNING)
          => \/ created' = created
             \/ created'[Len(created')].start >= NOON]_vars

\* a fourth deep-work block sits at 12:00 although, on a free calendar, it
\* would have fitted with its buffer between the third block and 12:00
C5_Witness ==
    /\ cal_busy = <<>>
    /\ \E i \in 2..Len(created) :
          /\ IsDeepBlock(created[i])
          /\ created[i].start = NOON
          /\ Cardinality(DeepMorning) = MAX_DEEP_MORNING
          /\ created[i-1].end + BUFFER_MIN + (created[i].end - created[i].start)
                + BUFFER_MIN <= NOON

\* the busy union a run has built: calendar, lunch, placed blocks and buffers
AllBusy == {(busy \o created_busy)[k] : k \in 1..Len(busy \o created_busy)}

\* [t, t + len) lies in the workday and meets nothing busy
FreeAt(t, len) ==
    /\ t + len <= day_end
    /\ \A b \in AllBusy : ~Overlap(<<t, t + len>>, b)

\* a maximal free stretch starts at the cursor or where something busy ends
FreeStarts(c, len) ==
    {t \in {c} \cup {b[2] : b \in AllBusy} : t >= c /\ FreeAt(t, len)}

EarliestFree(c, len) ==
    CHOOSE t \in FreeStarts(c, len) : \A u \in FreeStarts(c, len) : t <= u

\* the Cursor of the run; a run that returns at the empty-list check has not
\* moved it from max(now, workdayStart)
RunCursor == IF normalized = <<>> THEN Max(now, day_start) ELSE cursor

\* C6: a run that placed no task block, the run with no tasks included,
\* creates exactly one 30-minute triage block whenever 30 free minutes exist
\* between its Cursor and workdayEnd.
C6_TriageWhenNothingPlaced ==
    (pc = "done" /\ TaskBlocks = {} /\ FreeStarts(RunCursor, triage_dur) # {})
        => /\ Len(created) = 1
           /\ created[1].title = TRIAGE_TITLE
           /\ created[1].end - created[1].start = triage_dur

\* C7: a triage block exists only in a run without task blocks and at most
\* once; it is the 30 minutes at the start of the first free stretch of 30
\* minutes or more from Cursor; with no such stretch the schedule is empty.
C7_TriageRule ==
    /\ Cardinality(TriageBlocks) <= 1
    /\ TriageBlocks # {} => TaskBlocks = {}
    /\ \A i \in TriageBlocks :
          /\ FreeStarts(cursor, triage_dur) # {}
          /\ created[i].start = EarliestFree(cursor, triage_dur)
          /\ created[i].end = created[i].start + triage_dur
    /\ (pc = "done" /\ TaskBlocks = {} /\ FreeStarts(RunCursor, triage_dur) = {})
          => created = <<>>

\* the triage block sits in a later free stretch because the first one from
\* Cursor is shorter than 30 minutes
C7_Witness ==
    /\ pc = "done"
    /\ TriageBlocks # {}
    /\ \E i \in TriageBlocks :
          \E t \in FreeStarts(cursor, 1) : t < created[i].start

\* ---------------------------------------------------------------------------
\* Properties of free_segments
\* ---------------------------------------------------------------------------
InSome(t, ivs) == \E k \in 1..Len(ivs) : ivs[k][1] <= t /\ t < ivs[k][2]

\* C8: for a window with start < end and busy intervals with end > start,
\* free_segments yields non-empty intervals, ascending and pairwise disjoint,
\* whose union is the window minus the union of the busy intervals.
C8_FreeSegments ==
    seg_done =>
        /\ \A i \in 1..Len(seg_out) : seg_out[i][1] < seg_out[i][2]
        /\ \A i \in 1..(Len(seg_out) - 1) : seg_out[i][2] <= seg_out[i + 1][1]
        /\ \A t \in 0..GridMax :
              InSome(t, seg_out) <=>
                  /\ seg_in.start <= t
                  /\ t < seg_in.end
                  /\ ~InSome(t, seg_in.busy_list)

\* two busy intervals, one nested in or overlapping the other, with free
\* time on both sides
C8_Witness ==
    /\ seg_done
    /\ Len(seg_out) >= 2
    /\ \E j, k \in 1..Len(seg_in.busy_list) :
          /\ j < k
          /\ seg_in.busy_list[j] # seg_in.busy_list[k]
          /\ Overlap(seg_in.busy_list[j], seg_in.busy_list[k])

\* ---------------------------------------------------------------------------
\* Properties of the slot decision
\* ---------------------------------------------------------------------------
IntersectsLunch(fs, fe) == \E t \in lunch_start..(lunch_end - 1) : fs <= t /\ t < fe

\* the decision as the specification states it
Decision(fs, fe, d) ==
    IF ~IntersectsLunch(fs, fe)
    THEN IF fe - fs >= d + BUFFER_MIN THEN <<fs, fs + d>> ELSE NoSlot
    ELSE IF lunch_start - fs >= d + BUFFER_MIN THEN <<fs, fs + d>>
    ELSE IF fe - Max(fs, lunch_end) >= d + BUFFER_MIN
         THEN <<Max(fs, lunch_end), Max(fs, lunch_end) + d>>
    ELSE NoSlot

Accepted(segs, d) == {k \in 1..Len(segs) : Decision(segs[k][1], segs[k][2], d) # NoSlot}

FirstAccepted(segs, d) == CHOOSE k \in Accepted(segs, d) : \A j \in Accepted(segs, d) : k <= j

\* C9: the slot taken is the decision of the first segment the decision
\* accepts, and no slot when it rejects them all; a 90-minute task facing
\* 12:10-13:00 and 14:00-19:00 lands at 14:00-15:30.
C9_SlotDecision ==
    slot_done =>
        /\ slot_out = IF Accepted(slot_in.segs, slot_in.dur) = {} THEN NoSlot
                      ELSE LET k == FirstAccepted(slot_in.segs, slot_in.dur)
                           IN  Decision(slot_in.segs[k][1], slot_in.segs[k][2], slot_in.dur)
        /\ (slot_in.dur = 90 /\ slot_in.segs = << <<730, 780>>, <<840, 1140>> >>)
              => slot_out = <<840, 930>>

\* a segment running into lunch is rejected on both sides of lunch and the
\* task lands in the next segment
C9_Witness ==
    /\ slot_done
    /\ Len(slot_in.segs) = 2
    /\ IntersectsLunch(slot_in.segs[1][1], slot_in.segs[1][2])
    /\ slot_in.segs[1][1] < lunch_start
    /\ slot_in.segs[1][2] > lunch_end
    /\ slot_out = <<slot_in.segs[2][1], slot_in.segs[2][1] + slot_in.dur>>
    /\ slot_in.segs[2][1] > slot_in.segs[1][1]

\* ---------------------------------------------------------------------------
\* Properties of the linkage store
\* ---------------------------------------------------------------------------
\* C10: upsert_mapping creates the row when absent, and upsert(id, a, null)
\* followed by upsert(id, null, b), a and b non-null, leaves the row
\* {notionBlockId: a, calendarEventId: b} whatever the store held before.
C10_UpsertMerges ==
    /\ \A k \in 1..Len(calls) : mappings[calls[k].thread_id] # NoRow
    /\ Len(calls) >= 2 =>
          LET c1 == calls[Len(calls) - 1]
              c2 == calls[Len(calls)]
          IN  (/\ c1.thread_id = c2.thread_id
               /\ c1.notion_block_id # NULL /\ c1.calendar_event_id = NULL
               /\ c2.notion_block_id = NULL /\ c2.calendar_event_id # NULL)
              => get_mapping(c2.thread_id) =
                    [notion_block_id   |-> c1.notion_block_id,
                     calendar_event_id |-> c2.calendar_event_id]

\* the call UpsertMapping is making repeats the arguments of the call before it
RepeatsLastCall ==
    /\ Len(calls) >= 1
    /\ calls' = Append(calls, calls[Len(calls)])

\* C11: upsert_mapping is idempotent: a second call with the same arguments
\* leaves the stored mappings table exactly as the first call left it.
C11_UpsertIdempotent == [][RepeatsLastCall => mappings' = mappings]_vars

\* ---------------------------------------------------------------------------
\* Properties of the run with failing external calls
\* ---------------------------------------------------------------------------
\* the loop's locals after k iterations of the run in which every call returns
RECURSIVE FaultFree(_)
FaultFree(k) ==
    IF k = 0
    THEN [cursor |-> Max(now, day_start), blocks |-> <<>>, taken |-> <<>>,
          blocks_left |-> MAX_BLOCKS, deep_morning_left |-> MAX_DEEP_MORNING]
    ELSE LET st   == FaultFree(k - 1)
             mit  == normalized[k]
             deep == mit.minutes >= DEEP_MINUTES
             cur  == IF deep /\ st.cursor < NOON /\ st.deep_morning_left <= 0
                     THEN NOON ELSE st.cursor
             slot == first_slot(free_segments(cur, day_end, busy \o st.taken),
                                mit.minutes)
         IN  IF slot = NoSlot
             THEN [st EXCEPT !.cursor = cur]
             ELSE [cursor |-> slot[2] + BUFFER_MIN,
                   blocks |-> Append(st.blocks, [title |-> mit.text,
                                                start |-> slot[1], end |-> slot[2]]),
                   taken  |-> st.taken \o << <<slot[1], slot[2]>>,
                                            <<slot[2], slot[2] + BUFFER_MIN>> >>,
                   blocks_left |-> st.blocks_left - 1,
                   deep_morning_left |->
                       IF deep /\ slot[1] < NOON
                       THEN st.deep_morning_left - 1 ELSE st.deep_morning_left]

\* the linkage calls that raised: the call was made and the row is not there
\* or holds another event
LinkRaised ==
    {k \in 1..Len(calls) :
        \/ mappings[calls[k].thread_id] = NoRow
        \/ /\ mappings[calls[k].thread_id] # NoRow
           /\ mappings[calls[k].thread_id].created_at < k}

\* the block a linkage call was made for
BlockOfCall(k) ==
    CHOOSE i \in 1..Len(created) : str_id(created[i].calendar_event_id) = calls[k].calendar_event_id

\* C12: a linkage write that raises does not abort the run: the block's event
\* stays created, the block is in the returned schedule, and the slots, quotas
\* and cursor of every later task are those of the run in which it succeeded.
C12_LinkFailureIsolated ==
    /\ pc # "raise_upsert_mapping"
    /\ pc \in {"loop", "triage", "done"} /\ normalized # <<>> =>
          /\ cursor = FaultFree(idx).cursor
          /\ created_busy = FaultFree(idx).taken
          /\ blocks_left = FaultFree(idx).blocks_left
          /\ deep_morning_left = FaultFree(idx).deep_morning_left
          /\ \/ TriageBlocks # {} /\ FaultFree(idx).blocks = <<>>
             \/ /\ Len(created) = Len(FaultFree(idx).blocks)
                /\ \A i \in 1..Len(created) :
                      [title |-> created[i].title, start |-> created[i].start,
                       end |-> created[i].end] = FaultFree(idx).blocks[i]
    /\ \A k \in 1..Len(calls) :
          \E i \in 1..Len(created) :
             /\ str_id(created[i].calendar_event_id) = calls[k].calendar_event_id
             /\ i <= Len(events)
             /\ events[i].start = created[i].start

C12_Witness ==
    /\ pc = "done"
    /\ \E k \in LinkRaised : BlockOfCall(k) < Len(created)

\* what the caller of schedule_blocks receives: the list of line 323 (or the
\* [] of line 194) when the function returns, nothing but the exception when
\* a call raised
returned == IF pc = "done" THEN created ELSE <<>>

\* C13: when create_event fails after earlier tasks were placed, the run
\* fails, the events already created stay in the calendar and they are
\* reported to the caller.
C13_CreatedReportedOnFailure ==
    pc = "raise_create_event" =>
        \A i \in 1..Len(events) :
            \E j \in 1..Len(returned) :
                /\ returned[j].title = events[i].title
                /\ returned[j].start = events[i].start
                /\ returned[j].end = events[i].end

\* C14: get_busy is called before any create_event; when the busy-time source
\* is unavailable or raises, the run fails with no event created, and never
\* goes on with an empty busy list in place of the fetch.
C14_BusyFetchFailureFailsRun ==
    /\ pc = "raise_get_busy" => events = <<>>
    /\ ~cal_enabled /\ normalized # <<>> =>
          /\ pc \notin {"loop", "triage", "done"}
          /\ events = <<>>

\* C15: create_event is called exactly once for each block of the schedule and
\* for nothing else; each input task yields at most one block; no call is
\* repeated.
C15_OneEventPerBlock ==
    /\ [](/\ Len(events) = Len(created)
          /\ \A i \in 1..Len(created) :
                /\ created[i].calendar_event_id = i
                /\ events[i] = [title |-> created[i].title,
                                start |-> created[i].start, end |-> created[i].end]
          /\ Cardinality(TaskBlocks) <= idx
          /\ idx <= Len(normalized))
    /\ [][/\ Len(events') <= Len(events) + 1
          /\ Len(events') = Len(events) + 1 =>
                \/ idx' = idx + 1 /\ created'[Len(created')].title = normalized[idx'].text
                \/ pc = "triage" /\ created'[Len(created')].title = TRIAGE_TITLE
          /\ \A i \in 1..Len(events) : i <= Len(events') /\ events'[i] = events[i]]_vars

C15_Witness ==
    /\ pc = "done"
    /\ Len(created) >= 2
    /\ Cardinality(TaskBlocks) < Len(normalized)
    /\ Len(events) = Len(created)

\* ---------------------------------------------------------------------------
\* Properties of the normalisation
\* ---------------------------------------------------------------------------
\* the entries of the argument whose text is neither empty nor blank
KeptEntries == {i \in 1..Len(norm_in) : norm_in[i].text \notin {"", " "}}

\* the j-th of them
NthKept(j) == CHOOSE i \in KeptEntries : Cardinality({k \in KeptEntries : k <= i}) = j

\* the minutes an entry is to reach the loop with
ExpectedMinutes(raw) ==
    LET v == IF raw.kind = "int" THEN raw.v
             ELSE IF raw = PyStr("200") THEN 200
             ELSE 60
    IN  IF v < 10 THEN 10 ELSE IF v > 120 THEN 120 ELSE v

\* C16: every task that reaches the placement loop has a non-empty title and
\* minutes in [10,120]: blank entries are dropped, minutes out of range are
\* clamped to the nearest bound, missing or non-numeric minutes become 60, and
\* the normalisation returns for each of these inputs.
C16_Normalisation ==
    norm_done =>
        /\ \A j \in 1..Len(norm_out) :
              /\ norm_out[j].text \notin {"", " "}
              /\ norm_out[j].minutes >= 10 /\ norm_out[j].minutes <= 120
        /\ Len(norm_out) = Cardinality(KeptEntries)
        /\ \A j \in 1..Len(norm_out) :
              /\ norm_out[j].minutes = ExpectedMinutes(norm_in[NthKept(j)].minutes)
              /\ norm_out[j].thread_id = norm_in[NthKept(j)].thread_id
              /\ norm_out[j].text \in {norm_in[NthKept(j)].text, "draft"}

C16_Witness ==
    /\ norm_done
    /\ Len(norm_in) = 2 /\ Len(norm_out) = 1
    /\ norm_in[1].text = " "
    /\ norm_in[2].minutes \in {PyStr("abc"), PyNone, Missing}
    /\ norm_out[1].minutes = 60

\* ---------------------------------------------------------------------------
\* Properties of prioritize_mits
\* ---------------------------------------------------------------------------
\* the candidate texts that are not blank, in order
Candidates == SelectSeq([i \in 1..Len(prio_in.tasks) |-> prio_in.tasks[i].text],
                        LAMBDA t : t # " ")

\* the response the model returned is not a JSON array of task objects: no
\* bracketed part, a part json.loads refuses, or an element that is no object
Malformed ==
    /\ ~prio_in.resp.raises
    /\ \/ prio_in.resp.open = -1 \/ prio_in.resp.close = -1
       \/ prio_in.resp.close <= prio_in.resp.open
       \/ ~prio_in.resp.json_ok
       \/ \E i \in 1..Len(prio_in.resp.array) : prio_in.resp.array[i].kind # "dict"

\* C17: on a malformed or unparseable response prioritize_mits returns the
\* first up to 3 candidate texts at 60 minutes each, and does not raise.
C17_FallbackOnMalformed ==
    prio_done /\ Malformed =>
        /\ ~prio_out.raises
        /\ Len(prio_out.list) = Min(3, Len(Candidates))
        /\ \A i \in 1..Len(prio_out.list) :
              /\ prio_out.list[i].text = Candidates[i]
              /\ prio_out.list[i].minutes = 60

\* C18: an interval with end <= start is rejected when it is constructed: no
\* such busy interval returned by the calendar source reaches the
\* free-segment sweep or the placement loop.
C18_MalformedIntervalRejected ==
    pc \in {"loop", "triage", "done"} =>
        \A k \in 1..Len(busy) : busy[k][2] > busy[k][1]

\* ---------------------------------------------------------------------------
\* Properties of one placement step
\* ---------------------------------------------------------------------------
\* a task is being considered: the loop takes the next entry
Considers == pc = "loop" /\ idx' = idx + 1

\* the Cursor the search for the task being considered starts from
GuardedCursor ==
    IF /\ normalized[idx + 1].minutes >= 45
       /\ cursor < NOON
       /\ deep_morning_left <= 0
    THEN NOON ELSE cursor

\* the length a free stretch must have for the task being considered
Required == normalized[idx + 1].minutes + BUFFER_MIN

ScenarioA ==
    (/\ pc = "done" /\ now = 540 /\ cal_busy = <<>>
     /\ normalized = <<[text |-> "review", minutes |-> 60, thread_id |-> NULL]>>)
    => /\ Len(created) = 1
       /\ created[1].start = 540 /\ created[1].end = 600

\* C19: greedy first fit: each task considered is placed at the start of the
\* earliest free stretch from the Cursor (taken after the quota guard) that is
\* at least minutes + BUFFER_MIN long, for exactly its minutes, and is dropped
\* if and only if there is no such stretch; a 60-minute task at 09:00 on a free
\* day gets 09:00-10:00.
C19_GreedyFirstFit ==
    /\ []ScenarioA
    /\ [][Considers =>
            IF FreeStarts(GuardedCursor, Required) = {}
            THEN created' = created
            ELSE /\ Len(created') = Len(created) + 1
                 /\ \A i \in 1..Len(created) : created'[i] = created[i]
                 /\ created'[Len(created')].start = EarliestFree(GuardedCursor, Required)
                 /\ created'[Len(created')].end =
                        created'[Len(created')].start + normalized[idx + 1].minutes
                 /\ created'[Len(created')].title = normalized[idx + 1].text]_vars

\* one task was dropped and a later one placed beyond a free stretch that was
\* too short for it
C19_Witness ==
    /\ pc = "loop"
    /\ Len(created) = 2 /\ idx = 3
    /\ \E t \in FreeStarts(created[1].end + BUFFER_MIN, 1) : t < created[2].start

\* a dropped task: considered, and no block added
Drops == Considers /\ created' = created

\* C20 as stated: a task for which no segment yields a slot is dropped without
\* an error and the Cursor after it equals the Cursor before it was
\* considered, deep tasks under an exhausted morning quota included.
C20_CursorUnchangedOnDrop == [][Drops => pc' = "loop" /\ cursor' = cursor]_vars

\* C20 amended: the Cursor after a dropped task is the Cursor the quota guard
\* left: 12:00 for a deep task considered before 12:00 with the morning quota
\* exhausted, the Cursor before the task otherwise.
C20_CursorAfterDrop ==
    [][Drops => /\ pc' = "loop"
                /\ events' = events
                /\ cursor' = GuardedCursor
                /\ cursor' # cursor =>
                      /\ cursor' = NOON /\ cursor < NOON
                      /\ deep_morning_left <= 0
                      /\ normalized[idx + 1].minutes >= 45]_vars

\* a deep task was dropped after the quota guard had moved the Cursor to 12:00
C20_Witness ==
    /\ pc = "loop"
    /\ cursor = NOON
    /\ deep_morning_left = 0
    /\ Len(created) = 3 /\ idx = 4
    /\ created[3].end + BUFFER_MIN < NOON

\* ---------------------------------------------------------------------------
\* Properties of concurrent upserts
\* ---------------------------------------------------------------------------
AllDone == \A w \in Workers : th_pc[w] = "done"

\* the row the first thread under the lock found
InitialRow == th_row[lock_order[1]]

\* the row a serial execution of the calls in the given order leaves
RECURSIVE SerialRow(_, _)
SerialRow(order, row) ==
    IF order = <<>> THEN row
    ELSE SerialRow(Tail(order),
                   upsert_row(row, th_call[Head(order)].notion_block_id,
                              th_call[Head(order)].calendar_event_id,
                              th_ts[Head(order)]))

SerialOrders == {o \in [Workers -> Workers] : \A i, j \in Workers : i # j => o[i] # o[j]}

\* the final row is that of some serial order of the calls
Serialisable ==
    AllDone => \E o \in SerialOrders : mappings[SHARED_ID] = SerialRow(o, InitialRow)

\* one thread passes a notion id a only, another an event id b only, and any
\* further thread passes neither: the final row holds a and b
NoLostUpdate ==
    AllDone =>
        \A i, j \in Workers :
            (/\ i # j
             /\ th_call[i].notion_block_id # NULL /\ th_call[i].calendar_event_id = NULL
             /\ th_call[j].notion_block_id = NULL /\ th_call[j].calendar_event_id # NULL
             /\ \A k \in Workers \ {i, j} :
                   th_call[k].notion_block_id = NULL /\ th_call[k].calendar_event_id = NULL)
            => /\ mappings[SHARED_ID].notion_block_id = th_call[i].notion_block_id
               /\ mappings[SHARED_ID].calendar_event_id = th_call[j].calendar_event_id

\* C21: concurrent upsert_mapping calls for one thread_id read and write under
\* the store lock, so the final row is that of some serial order of the calls,
\* and concurrent upsert(id, a, null) and upsert(id, null, b) end with both a
\* and b stored.
C21_ConcurrentUpserts == Serialisable /\ NoLostUpdate

\* ---------------------------------------------------------------------------
\* Further properties of the scheduler
\* ---------------------------------------------------------------------------
\* C22: the triage block keeps its trailing buffer free: with every busy
\* interval well formed, [triage.start, triage.end + BUFFER_MIN) overlaps no
\* pre-existing busy interval (calendar or lunch).
C22_TriageBufferFree ==
    WellFormedBusy =>
        \A i \in TriageBlocks :
            \A k \in 1..Len(busy) : ~Overlap(WithBuffer(created[i]), busy[k])

\* ---------------------------------------------------------------------------
\* Properties of the workflow graph
\* ---------------------------------------------------------------------------
\* node n has an execution that ended among the first k log entries
EndedBefore(n, k) == \E j \in 1..(k - 1) : g_log[j] = [ev |-> "end", node |-> n]

\* the executions started so far, in order
Started == SelectSeq(g_log, LAMBDA e : e.ev = "start")

Tail5 == <<"select_mits", "add_todos", "prioritize", "schedule", "summary">>

\* invoke has returned
GraphDone ==
    /\ g_log # <<>>
    /\ g_log[Len(g_log)].ev = "step"
    /\ \A n \in Nodes : g_status[n] = "idle"

\* C23: select_mits does not execute until both list_tasks and filter_emails
\* have completed, and select_mits, add_todos, prioritize, schedule and
\* summary each execute exactly once per run, in that order.
C23_FanInOnce ==
    /\ \A i \in 1..Len(g_log) :
          g_log[i] = [ev |-> "start", node |-> "select_mits"] =>
              EndedBefore("list_tasks", i) /\ EndedBefore("filter_emails", i)
    /\ \A k \in 1..5 : g_runs[Tail5[k]] <= 1
    /\ GraphDone =>
          /\ \A k \in 1..5 : g_runs[Tail5[k]] = 1
          /\ SelectSeq(Started, LAMBDA e : \E k \in 1..5 : e.node = Tail5[k])
               = [k \in 1..5 |-> [ev |-> "start", node |-> Tail5[k]]]

\* C24: Cursor never decreases during a run, so the blocks of the schedule
\* are in strictly increasing start order, each after the buffer of the one
\* before, and no task is placed in a free gap before an earlier-placed block.
C24_CursorMonotone ==
    /\ [][cursor' >= cursor]_vars
    /\ [](\A i, j \in 1..Len(created) :
             i < j => /\ created[i].start < created[j].start
                      /\ created[i].end + BUFFER_MIN <= created[j].start)
    /\ [](pc \in {"loop", "triage"} /\ created # <<>> =>
             cursor >= created[Len(created)].end + BUFFER_MIN)

\* the second block would have fitted, with its buffer, in a free gap before
\* the first block, and was placed after it
C24_Witness ==
    /\ Len(created) >= 2
    /\ \E t \in FreeStarts(Max(now, day_start),
                           created[2].end - created[2].start + BUFFER_MIN) :
          t < created[1].start
    /\ created[2].start > created[1].start

\* C25: every task block has its trailing buffer inside the free segment it
\* was placed in: end + BUFFER_MIN <= workdayEnd, and end + BUFFER_MIN <=
\* lunchStart for a block that starts before lunch.
C25_BufferInsideSegment ==
    \A i \in TaskBlocks :
        /\ created[i].end + BUFFER_MIN <= WORKDAY_END
        /\ created[i].start < lunch_start => created[i].end + BUFFER_MIN <= lunch_start

\* the first task would have fitted before lunch without its buffer and was
\* placed after lunch
C25_Witness ==
    /\ idx = 1 /\ Len(created) = 1
    /\ created[1].title # TRIAGE_TITLE
    /\ created[1].start >= lunch_end
    /\ \E t \in FreeStarts(Max(now, day_start), created[1].end - created[1].start) :
          t < lunch_start

\* the quota guard fires for the task being considered
GuardFires ==
    /\ Considers
    /\ normalized[idx + 1].minutes >= 45
    /\ cursor < NOON
    /\ deep_morning_left <= 0

\* C26: when the morning deep quota is exhausted and a deep task is
\* considered with Cursor before 12:00, Cursor is set to 12:00 and stays at or
\* after 12:00 for the rest of the run, also when that task is dropped; no
\* later task, deep or short, is placed before 12:00.
C26_NoonSticks ==
    /\ [][GuardFires => /\ cursor' >= NOON
                        /\ created' = created => cursor' = NOON
                        /\ created' # created => created'[Len(created')].start >= NOON]_vars
    /\ [][cursor >= NOON /\ pc # "idle" =>
              /\ cursor' >= NOON
              /\ created' # created => created'[Len(created')].start >= NOON]_vars

\* a deep task was dropped by the guard's jump to 12:00, and the short task
\* after it was placed at or after 12:00 although it fitted before
C26_Witness ==
    /\ Len(created) = 4 /\ idx = 5
    /\ normalized[4].minutes >= 45
    /\ normalized[5].minutes < 45
    /\ created[3].end + BUFFER_MIN < NOON
    /\ created[4].start >= NOON
    /\ created[4].title = normalized[5].text
    /\ \E t \in {created[3].end + BUFFER_MIN} :
          /\ t + normalized[5].minutes + BUFFER_MIN <= NOON
          /\ \A k \in 1..Len(busy) :
                ~Overlap(<<t, t + normalized[5].minutes + BUFFER_MIN>>, busy[k])

====
